---------------------------- MODULE Spec2Model ----------------------------
(***************************************************************************)
(* ClearSky AQI service: the request handlers of                           *)
(* src/backend/routes/user.routes.ts (getData, getRecommendation,          *)
(* getHistory, getTips, getGeocode), the in-memory history store they      *)
(* share, and the level classifier; and the Dashboard component of the     *)
(* frontend with its loadData calls (mount, handleSelectPlace,             *)
(* handleRefresh).                                                         *)
(*                                                                         *)
(* Node runs each handler to completion between two awaits, so a handler   *)
(* without an await is one action and an async handler is two: the part    *)
(* before its await and the continuation after it.                         *)
(*                                                                         *)
(* Strings that the code parses (query and route parameters) are           *)
(* sequences of one-character strings.  A timestamp string is the triple   *)
(* <<date, sep, tod>>: the date part (first 10 characters, as a day        *)
(* ordinal: zero-padded dates order as their ordinals), the 11th           *)
(* character (0 for the blank of the provider's "YYYY-MM-DD hh:mm:ss", 1   *)
(* for the "T" of toISOString: " " < "T"), and the rest (time of day).     *)
(* JavaScript compares strings lexicographically, and so does StrGE.       *)
(***************************************************************************)
EXTENDS Integers, Sequences, FiniteSets, Bags, TLC

\* A value that may be null or undefined is the empty sequence when it is,
\* and the one-element sequence of the value when it is not.
Nil == <<>>
Some(v) == <<v>>

\* x ?? d
OrElse(x, d) == IF x = Nil THEN d ELSE x[1]

\* !s for a string s that may be missing: undefined and "" are falsy.
Falsy(s) == s = Nil \/ s[1] = <<>>

---------------------------------------------------------------------------
(* Bounds of the model *)

\* Capacity of the history store.  The source sets 500
\* (user.routes.ts:149); the model scales it so that eviction is reached.
MAX_HISTORY == 3

\* Provider lookups that are answered or pending in one behaviour, failed
\* ones not counted.
MaxLookups == 5

\* How many handlers can be suspended on an await at once.
MaxReq == 2

\* Largest aqi of the classifier's exhaustive input range 0..MaxAqi.
MaxAqi == 10000

\* The server clock counts ticks; a day has TicksPerDay of them.
TicksPerDay == 2

\* The clock at start-up, and how many ticks it advances at most.
StartTick == 200
ClockSpan == 2

\* Lookups the server starts at most while the provider's replies are
\* followed.
MaxLive == 3

\* loadData calls of the Dashboard in flight at most.
MaxCalls == 2

\* Largest days of the exhaustive range 0..MaxDays of getHistory requests.
MaxDays == 92

---------------------------------------------------------------------------
(* Strings and the conversions the handlers apply to them *)

Digit == {"0", "1", "2", "3", "4", "5", "6", "7", "8", "9"}

DigitVal(c) ==
    CASE c = "0" -> 0 [] c = "1" -> 1 [] c = "2" -> 2 [] c = "3" -> 3
      [] c = "4" -> 4 [] c = "5" -> 5 [] c = "6" -> 6 [] c = "7" -> 7
      [] c = "8" -> 8 [] c = "9" -> 9

DigitChar(d) ==
    CASE d = 0 -> "0" [] d = 1 -> "1" [] d = 2 -> "2" [] d = 3 -> "3"
      [] d = 4 -> "4" [] d = 5 -> "5" [] d = 6 -> "6" [] d = 7 -> "7"
      [] d = 8 -> "8" [] d = 9 -> "9"

\* String(n) for a non-negative integer n: its decimal digits.
RECURSIVE ToStr(_)
ToStr(n) == IF n < 10 THEN <<DigitChar(n)>>
            ELSE Append(ToStr(n \div 10), DigitChar(n % 10))

\* s without its leading white space.
RECURSIVE TrimStart(_)
TrimStart(s) == IF s # <<>> /\ Head(s) = " " THEN TrimStart(Tail(s)) ELSE s

\* s without its trailing white space.
RECURSIVE TrimEnd(_)
TrimEnd(s) == IF s # <<>> /\ s[Len(s)] = " "
              THEN TrimEnd(SubSeq(s, 1, Len(s) - 1)) ELSE s

\* s.trim()
trim(s) == TrimEnd(TrimStart(s))

\* The longest prefix of s made of digits.
RECURSIVE DigitPrefix(_)
DigitPrefix(s) == IF s # <<>> /\ Head(s) \in Digit
                  THEN <<Head(s)>> \o DigitPrefix(Tail(s))
                  ELSE <<>>

\* The value of a non-empty digit string.
RECURSIVE DigitsVal(_)
DigitsVal(ds) == IF Len(ds) = 1 THEN DigitVal(ds[1])
                 ELSE 10 * DigitsVal(SubSeq(ds, 1, Len(ds) - 1))
                      + DigitVal(ds[Len(ds)])

\* parseInt(s, 10): leading white space, an optional sign, then the
\* longest run of digits; NaN (nan |-> TRUE) when there is none.
parseInt(s) ==
    LET t    == TrimStart(s)
        neg  == t # <<>> /\ Head(t) = "-"
        body == IF t # <<>> /\ Head(t) \in {"-", "+"} THEN Tail(t) ELSE t
        ds   == DigitPrefix(body)
    IN  IF ds = <<>> THEN [nan |-> TRUE, val |-> 0]
        ELSE [nan |-> FALSE,
              val |-> IF neg THEN 0 - DigitsVal(ds) ELSE DigitsVal(ds)]

\* parseFloat(s) for decimal notation: leading white space, an optional
\* sign, digits, an optional "." and more digits; NaN when there is no
\* digit.  The number is kept exactly, as sign, integer part and fraction
\* digits.
parseFloat(s) ==
    LET t     == TrimStart(s)
        neg   == t # <<>> /\ Head(t) = "-"
        body  == IF t # <<>> /\ Head(t) \in {"-", "+"} THEN Tail(t) ELSE t
        ip    == DigitPrefix(body)
        rest  == SubSeq(body, Len(ip) + 1, Len(body))
        fp    == IF rest # <<>> /\ Head(rest) = "." THEN DigitPrefix(Tail(rest))
                 ELSE <<>>
    IN  IF ip = <<>> /\ fp = <<>>
        THEN [nan |-> TRUE, neg |-> FALSE, int |-> 0, frac |-> <<>>]
        ELSE [nan  |-> FALSE,
              neg  |-> neg,
              int  |-> IF ip = <<>> THEN 0 ELSE DigitsVal(ip),
              frac |-> fp]

\* a >= b on timestamp strings (lexicographic).
StrGE(a, b) ==
    \/ a[1] > b[1]
    \/ a[1] = b[1] /\ a[2] > b[2]
    \/ a[1] = b[1] /\ a[2] = b[2] /\ a[3] >= b[3]

\* new Date().toISOString() at clock tick t.
toISOString(t) == <<t \div TicksPerDay, 1, t % TicksPerDay>>

\* time.slice(0, 10): the date part of a timestamp string.
DateOf(time) == time[1]

---------------------------------------------------------------------------
(* The level classifier *)

AQI_LEVELS == <<
    [max |-> 50, label |-> "Good", color |-> "#00e400",
     recommendation |->
       "Air quality is satisfactory. Enjoy outdoor activities."],
    [max |-> 100, label |-> "Moderate", color |-> "#ffff00",
     recommendation |->
       "Acceptable quality. Unusually sensitive people should consider reducing prolonged outdoor exertion."],
    [max |-> 150, label |-> "Unhealthy for Sensitive", color |-> "#ff7e00",
     recommendation |->
       "Members of sensitive groups may experience health effects. Consider reducing outdoor activities."],
    [max |-> 200, label |-> "Unhealthy", color |-> "#ff0000",
     recommendation |->
       "Everyone may experience health effects. Avoid prolonged outdoor exertion. Sensitive groups should stay indoors."],
    [max |-> 300, label |-> "Very Unhealthy", color |-> "#8f3f97",
     recommendation |->
       "Health alert: everyone may experience serious effects. Stay indoors, close windows, use air purifiers."],
    [max |-> 500, label |-> "Hazardous", color |-> "#7e0023",
     recommendation |->
       "Emergency conditions. Avoid all outdoor activity. Stay indoors with windows closed. Use N95 masks if you must go out."] >>

\* for (const level of AQI_LEVELS) if (aqi <= level.max) return level;
RECURSIVE LevelScan(_, _)
LevelScan(aqi, i) ==
    IF i > Len(AQI_LEVELS) THEN AQI_LEVELS[Len(AQI_LEVELS)]
    ELSE IF aqi <= AQI_LEVELS[i].max THEN AQI_LEVELS[i]
    ELSE LevelScan(aqi, i + 1)

\* getLevel comparing with < instead of <=.
RECURSIVE LevelScan_Strict(_, _)
LevelScan_Strict(aqi, i) ==
    IF i > Len(AQI_LEVELS) THEN AQI_LEVELS[Len(AQI_LEVELS)]
    ELSE IF aqi < AQI_LEVELS[i].max THEN AQI_LEVELS[i]
    ELSE LevelScan_Strict(aqi, i + 1)

getLevel_Strict(aqi) == LevelScan_Strict(aqi, 1)

\* getLevel without the return after the loop: above the last bound it
\* returns undefined.
getLevel_NoFallback(aqi) ==
    IF aqi <= AQI_LEVELS[Len(AQI_LEVELS)].max THEN LevelScan(aqi, 1)
    ELSE [max |-> 0, label |-> "undefined", color |-> "undefined",
          recommendation |-> "undefined"]

getLevel(aqi) == LevelScan(aqi, 1)


---------------------------------------------------------------------------
(* The history store and the provider *)

VARIABLES
    aqiHistoryStore,  \* the in-memory history, oldest first
    pending,          \* the bag of handlers suspended on their await, each
                      \* with what it holds (and, for a lookup, as a history
                      \* variable, how many had been served when it started)
    served,           \* history variable: the successful getData responses
                      \* sent, in the order they were sent
    last,             \* the response sent most recently, with its request
    now,              \* the server clock, in ticks
    dashboard         \* the state of the Dashboard component and its
                      \* loadData calls in flight, oldest first

vars == <<aqiHistoryStore, pending, served, last, now, dashboard>>

StartDay == StartTick \div TicksPerDay

\* Record without the eviction.
Record_NoEvict(store, obs) == Append(store, obs)

\* Record evicting the newest element (pop) instead of the oldest.
Record_Pop(store, obs) ==
    LET pushed == Append(store, obs)
    IN  IF Len(pushed) > MAX_HISTORY
        THEN SubSeq(pushed, 1, Len(pushed) - 1) ELSE pushed

\* Record inserting at the front (unshift) and evicting at the back.
Record_Unshift(store, obs) ==
    LET pushed == <<obs>> \o store
    IN  IF Len(pushed) > MAX_HISTORY
        THEN SubSeq(pushed, 1, Len(pushed) - 1) ELSE pushed

\* Record evicting as soon as the capacity is reached (>= for >).
Record_EvictAtCapacity(store, obs) ==
    LET pushed == Append(store, obs)
    IN  IF Len(pushed) >= MAX_HISTORY THEN Tail(pushed) ELSE pushed

\* aqiHistoryStore.push(obs);
\* if (aqiHistoryStore.length > MAX_HISTORY) aqiHistoryStore.shift();
Record(store, obs) ==
    LET pushed == Append(store, obs)
    IN  IF Len(pushed) > MAX_HISTORY THEN Tail(pushed) ELSE pushed

\* The data object of a provider payload; every field may be missing.
Payload(aqi, name, pol, iaqi, s) ==
    [aqi         |-> aqi,
     city        |-> IF name = Nil THEN Nil ELSE Some([name |-> name]),
     dominentpol |-> pol,
     iaqi        |-> iaqi,
     time        |-> IF s = Nil THEN Nil ELSE Some([s |-> s])]

Iaqi == Some([pm25 |-> Some([v |-> Some(12)]), pm10 |-> Some([v |-> Nil]),
              no2 |-> Nil, so2 |-> Nil, o3 |-> Nil])

FullPayload(aqi, s) ==
    Payload(Some(aqi), Some("Delhi"), Some("pm25"), Iaqi, Some(s))

\* What axios.get(url) gives: it throws, or it returns response.data,
\* which may be missing, and whose status and data are the provider's.
Threw == [threw |-> TRUE, data |-> Nil]
Body(status, d) == [threw |-> FALSE,
                    data  |-> Some([status |-> status, data |-> d])]
NoBody == [threw |-> FALSE, data |-> Nil]

\* d.iaqi?.k?.v ?? null
IaqiV(x) == IF x = Nil THEN Nil ELSE x[1].v

pollutants(d) ==
    IF d.iaqi = Nil
    THEN [pm25 |-> Nil, pm10 |-> Nil, no2 |-> Nil, so2 |-> Nil, o3 |-> Nil]
    ELSE LET q == d.iaqi[1]
         IN  [pm25 |-> IaqiV(q.pm25), pm10 |-> IaqiV(q.pm10),
              no2  |-> IaqiV(q.no2),  so2  |-> IaqiV(q.so2),
              o3   |-> IaqiV(q.o3)]

\* The object getData answers with on success.
formatted(d, t) ==
    LET aqi == OrElse(d.aqi, 0)
    IN  [city              |-> IF d.city = Nil THEN "Unknown"
                               ELSE OrElse(d.city[1].name, "Unknown"),
         aqi               |-> aqi,
         dominantPollutant |-> d.dominentpol,
         pollutants        |-> pollutants(d),
         time              |-> IF d.time = Nil THEN toISOString(t)
                               ELSE OrElse(d.time[1].s, toISOString(t)),
         level             |-> getLevel(aqi)]

\* A record that does not take the city of the response.
AqiRecord_UnknownCity(f, numLat, numLng) ==
    [city |-> "Unknown", aqi |-> f.aqi, lat |-> numLat, lng |-> numLng,
     time |-> f.time, dominantPollutant |-> f.dominantPollutant]

\* The record getData pushes for the response f.
AqiRecord(f, numLat, numLng) ==
    [city |-> f.city, aqi |-> f.aqi, lat |-> numLat, lng |-> numLng,
     time |-> f.time, dominantPollutant |-> f.dominantPollutant]

\* getDataAfterAwait rejecting a payload only when its status is not "ok"
\* and its data is missing (&& for ||).
getDataAfterAwait_And(store, numLat, numLng, reply, t) ==
    IF reply.threw \/ reply.data = Nil
    THEN [store |-> store, status |-> 500,
          body |-> [error |-> "Failed to fetch AQI data"]]
    ELSE LET data == reply.data[1]
         IN  IF data.status # "ok" /\ data.data = Nil
             THEN [store |-> store, status |-> 502,
                   body |-> [error |-> "Invalid response from AQI service"]]
             ELSE IF data.data = Nil
             THEN [store |-> store, status |-> 500,
                   body |-> [error |-> "Failed to fetch AQI data"]]
             ELSE LET f == formatted(data.data[1], t)
                  IN  [store  |-> Record(store, AqiRecord(f, numLat, numLng)),
                       status |-> 200,
                       body   |-> f]

\* getData from the return of axios.get to its response: the store it
\* leaves, and the status and body it sends.
getDataAfterAwait(store, numLat, numLng, reply, t) ==
    IF reply.threw
    THEN [store |-> store, status |-> 500,
          body |-> [error |-> "Failed to fetch AQI data"]]
    ELSE IF reply.data = Nil
    THEN \* data.status of a missing body throws, and the catch answers
         [store |-> store, status |-> 500,
          body |-> [error |-> "Failed to fetch AQI data"]]
    ELSE LET data == reply.data[1]
         IN  IF data.status # "ok" \/ data.data = Nil
             THEN [store |-> store, status |-> 502,
                   body |-> [error |-> "Invalid response from AQI service"]]
             ELSE LET f == formatted(data.data[1], t)
                  IN  [store  |-> Record(store, AqiRecord(f, numLat, numLng)),
                       status |-> 200,
                       body   |-> f]

NoNum == parseFloat(<<>>)

\* A handler suspended on its await; a lookup notes how many lookups had
\* been served when it started.
Suspended(handler, numLat, numLng) ==
    [handler |-> handler, numLat |-> numLat, numLng |-> numLng,
     servedAtStart |-> IF handler = "getData" THEN Len(served) ELSE 0]

\* Lookups suspended on the provider.
Lookups == {c \in BagToSet(pending) : c.handler = "getData"}
PendingLookups == BagCardinality([c \in Lookups |-> pending[c]])

\* The Dashboard component.  DEFAULT_LAT, DEFAULT_LNG and a place of the
\* geocoder's results.
DEFAULT_LAT == parseFloat(<<"4", "0", ".", "0">>)
DEFAULT_LNG == parseFloat(<<"-", "7", "4", ".", "0", "0", "6">>)

Places ==
    { [displayName |-> "New York", lat |-> DEFAULT_LAT, lng |-> DEFAULT_LNG],
      [displayName |-> "Delhi, India",
       lat |-> parseFloat(<<"2", "8", ".", "6">>),
       lng |-> parseFloat(<<"7", "7", ".", "2">>)] }

\* What /aqi/current answers for coordinates: the station of the place,
\* each place with an aqi of its own.
fetchCurrent(latitude, longitude) ==
    LET place == CHOOSE pl \in Places :
                    pl.lat = latitude /\ pl.lng = longitude
        aqi   == IF latitude = DEFAULT_LAT THEN 40 ELSE 160
    IN  [formatted(FullPayload(aqi, <<StartDay, 0, 1>>), StartTick)
            EXCEPT !.city = place.displayName]

\* What /aqi/recommendation answers for an aqi.
fetchRecommendation(aqi) ==
    LET level == getLevel(aqi)
    IN  [aqi            |-> aqi,
         level          |-> level.label,
         color          |-> level.color,
         recommendation |-> level.recommendation,
         allLevels      |-> [i \in 1..Len(AQI_LEVELS) |->
                               [upTo  |-> AQI_LEVELS[i].max,
                                label |-> AQI_LEVELS[i].label,
                                color |-> AQI_LEVELS[i].color]]]

\* The useState initial values; mounted tells whether the effect of the
\* first render has run.
DashboardInit ==
    [mounted        |-> FALSE,
     loading        |-> TRUE,
     error          |-> Nil,
     aqi            |-> Nil,
     recommendation |-> Nil,
     historyData    |-> Nil,
     tips           |-> Nil,
     lat            |-> DEFAULT_LAT,
     lng            |-> DEFAULT_LNG,
     calls          |-> <<>>]

\* s without its i-th element.
Without(s, i) == SubSeq(s, 1, i - 1) \o SubSeq(s, i + 1, Len(s))

\* loadData up to its first await: setError(null), setLoading(true), and
\* the three fetches are sent.
loadDataCall(d, latitude, longitude) ==
    [d EXCEPT !.error = Nil,
              !.loading = TRUE,
              !.calls = Append(@, [latitude |-> latitude,
                                   longitude |-> longitude,
                                   pc |-> "all", current |-> Nil,
                                   hist |-> Nil, tipsRes |-> Nil])]

\* The catch and finally blocks of loadData, for the call at index i.
loadDataCatch(d, i, message) ==
    [d EXCEPT !.error = Some(message),
              !.aqi = Nil,
              !.recommendation = Nil,
              !.loading = FALSE,
              !.calls = Without(@, i)]

Init ==
    /\ aqiHistoryStore = <<>>
    /\ pending = EmptyBag
    /\ served = <<>>
    /\ last = [handler |-> "none", status |-> 0]
    /\ now = StartTick
    /\ dashboard = DashboardInit

\* getData without the check that lat and lng parse to numbers.
getData_NoNaNCheck(lat, lng) ==
    /\ IF Falsy(lat) \/ Falsy(lng)
       THEN /\ last' = [handler |-> "getData", status |-> 400,
                        body |-> [error |-> "lat and lng query parameters are required"]]
            /\ UNCHANGED pending
       ELSE /\ BagCardinality(pending) < MaxReq
            /\ Len(served) + PendingLookups < MaxLookups
            /\ pending' = pending
                  (+) SetToBag({Suspended("getData", parseFloat(lat[1]),
                                          parseFloat(lng[1]))})
            /\ UNCHANGED last
    /\ UNCHANGED <<aqiHistoryStore, served, now, dashboard>>

\* getData up to its await: lat and lng are validated, then the lookup is
\* sent and the handler is suspended.
getData(lat, lng) ==
    /\ IF Falsy(lat) \/ Falsy(lng)
       THEN /\ last' = [handler |-> "getData", status |-> 400,
                        body |-> [error |-> "lat and lng query parameters are required"]]
            /\ UNCHANGED pending
       ELSE LET numLat == parseFloat(lat[1])
                numLng == parseFloat(lng[1])
            IN  IF numLat.nan \/ numLng.nan
                THEN /\ last' = [handler |-> "getData", status |-> 400,
                                 body |-> [error |-> "lat and lng must be valid numbers"]]
                     /\ UNCHANGED pending
                ELSE /\ BagCardinality(pending) < MaxReq
                     /\ Len(served) + PendingLookups < MaxLookups
                     /\ pending' = pending
                           (+) SetToBag({Suspended("getData", numLat, numLng)})
                     /\ UNCHANGED last
    /\ UNCHANGED <<aqiHistoryStore, served, now, dashboard>>

\* getData whose catch block sends nothing when the lookup threw.
getDataResume_SilentCatch(c, reply) ==
    /\ c.handler = "getData"
    /\ LET out == getDataAfterAwait(aqiHistoryStore, c.numLat, c.numLng,
                                    reply, now)
       IN  /\ aqiHistoryStore' = out.store
           /\ last' = IF reply.threw THEN last
                      ELSE [handler |-> "getData", status |-> out.status,
                            body |-> out.body,
                            numLat |-> c.numLat, numLng |-> c.numLng,
                            servedAtStart |-> c.servedAtStart,
                            reply |-> reply]
           /\ served' = IF out.status = 200
                        THEN Append(served, [numLat |-> c.numLat,
                                             numLng |-> c.numLng,
                                             body |-> out.body])
                        ELSE served
    /\ pending' = pending (-) SetToBag({c})
    /\ UNCHANGED <<now, dashboard>>

\* getData from the return of the lookup to the response.
getDataResume(c, reply) ==
    /\ c.handler = "getData"
    /\ LET out == getDataAfterAwait(aqiHistoryStore, c.numLat, c.numLng,
                                    reply, now)
       IN  /\ aqiHistoryStore' = out.store
           /\ last' = [handler |-> "getData", status |-> out.status,
                       body |-> out.body,
                       numLat |-> c.numLat, numLng |-> c.numLng,
                       servedAtStart |-> c.servedAtStart,
                       reply |-> reply]
           /\ served' = IF out.status = 200
                        THEN Append(served, [numLat |-> c.numLat,
                                             numLng |-> c.numLng,
                                             body |-> out.body])
                        ELSE served
    /\ pending' = pending (-) SetToBag({c})
    /\ UNCHANGED <<now, dashboard>>

\* getRecommendation taking the color of the first band of the table.
getRecommendation_FirstColor(queryAqi, bodyAqi) ==
    /\ LET aqiParam == IF queryAqi # Nil THEN queryAqi ELSE bodyAqi
           aqi == IF aqiParam # Nil THEN parseInt(aqiParam[1])
                  ELSE [nan |-> TRUE, val |-> 0]
       IN  IF aqiParam = Nil \/ aqi.nan
           THEN last' = [handler |-> "getRecommendation", status |-> 400,
                         body |-> [error |-> "aqi query parameter is required"]]
           ELSE LET level == getLevel(aqi.val)
                IN  last' = [handler |-> "getRecommendation", status |-> 200,
                             body |-> [aqi            |-> aqi.val,
                                       level          |-> level.label,
                                       color          |-> AQI_LEVELS[1].color,
                                       recommendation |-> level.recommendation,
                                       allLevels      |->
                                         [i \in 1..Len(AQI_LEVELS) |->
                                            [upTo  |-> AQI_LEVELS[i].max,
                                             label |-> AQI_LEVELS[i].label,
                                             color |-> AQI_LEVELS[i].color]]]]
    /\ UNCHANGED <<aqiHistoryStore, pending, served, now, dashboard>>

\* getRecommendation: the aqi parameter of the query string, else of the
\* body, classified.
getRecommendation(queryAqi, bodyAqi) ==
    /\ LET aqiParam == IF queryAqi # Nil THEN queryAqi ELSE bodyAqi
           aqi == IF aqiParam # Nil THEN parseInt(aqiParam[1])
                  ELSE [nan |-> TRUE, val |-> 0]
       IN  IF aqiParam = Nil \/ aqi.nan
           THEN last' = [handler |-> "getRecommendation", status |-> 400,
                         body |-> [error |-> "aqi query parameter is required"]]
           ELSE LET level == getLevel(aqi.val)
                IN  last' = [handler |-> "getRecommendation", status |-> 200,
                             body |-> [aqi            |-> aqi.val,
                                       level          |-> level.label,
                                       color          |-> level.color,
                                       recommendation |-> level.recommendation,
                                       allLevels      |->
                                         [i \in 1..Len(AQI_LEVELS) |->
                                            [upTo  |-> AQI_LEVELS[i].max,
                                             label |-> AQI_LEVELS[i].label,
                                             color |-> AQI_LEVELS[i].color]]]]
    /\ UNCHANGED <<aqiHistoryStore, pending, served, now, dashboard>>

\* Filter comparing with > instead of >=.
Filter_Strict(store, sinceStr) ==
    SelectSeq(store, LAMBDA x : StrGE(x.time, sinceStr) /\ x.time # sinceStr)

\* Filter that keeps every observation.
Filter_All(store, sinceStr) == store

\* aqiHistoryStore.filter((r) => r.time >= sinceStr)
Filter(store, sinceStr) == SelectSeq(store, LAMBDA x : StrGE(x.time, sinceStr))

\* The index in byDay of the entry of a date, 0 when it has none.
EntryOf(byDay, date) ==
    IF \E i \in 1..Len(byDay) : byDay[i].date = date
    THEN CHOOSE i \in 1..Len(byDay) : byDay[i].date = date
    ELSE 0

\* The loop putting each observation at the front of its day's readings.
RECURSIVE GroupByDay_Prepend(_, _)
GroupByDay_Prepend(filtered, byDay) ==
    IF filtered = <<>> THEN byDay
    ELSE LET x      == Head(filtered)
             date   == DateOf(x.time)
             withD  == IF EntryOf(byDay, date) = 0
                       THEN Append(byDay, [date |-> date, readings |-> <<>>,
                                           avgAqi |-> 0])
                       ELSE byDay
             i      == EntryOf(withD, date)
         IN  GroupByDay_Prepend(Tail(filtered),
                                [withD EXCEPT ![i].readings = <<x>> \o @])

\* The loop over filtered: byDay keeps its entries in the order their dates
\* were first met, and each entry its readings in the order they were met.
RECURSIVE GroupByDay(_, _)
GroupByDay(filtered, byDay) ==
    IF filtered = <<>> THEN byDay
    ELSE LET x      == Head(filtered)
             date   == DateOf(x.time)
             withD  == IF EntryOf(byDay, date) = 0
                       THEN Append(byDay, [date |-> date, readings |-> <<>>,
                                           avgAqi |-> 0])
                       ELSE byDay
             i      == EntryOf(withD, date)
         IN  GroupByDay(Tail(filtered),
                        [withD EXCEPT ![i].readings = Append(@, x)])

RECURSIVE SumAqi(_)
SumAqi(readings) == IF readings = <<>> THEN 0
                    ELSE Head(readings).aqi + SumAqi(Tail(readings))

\* Math.floor for Math.round.
RoundDiv_Floor(sum, n) == sum \div n

\* Math.round(sum / n), n > 0: the nearest integer, halves upwards.
RoundDiv(sum, n) == (2 * sum + n) \div (2 * n)

Average(entry) ==
    [date     |-> entry.date,
     avgAqi   |-> RoundDiv(SumAqi(entry.readings), Len(entry.readings)),
     readings |-> entry.readings]

\* e put into the date-sorted h, after the entries whose date is not later.
RECURSIVE InsertByDate(_, _)
InsertByDate(h, e) ==
    IF h = <<>> THEN <<e>>
    ELSE IF Head(h).date <= e.date THEN <<Head(h)>> \o InsertByDate(Tail(h), e)
    ELSE <<e>> \o h

\* history.sort((a, b) => a.date.localeCompare(b.date)), a stable sort.
RECURSIVE SortByDate(_)
SortByDate(h) ==
    IF h = <<>> THEN <<>>
    ELSE InsertByDate(SortByDate(SubSeq(h, 1, Len(h) - 1)), h[Len(h)])

\* Array.from(byDay.values()).map(...) and the sort.
History(filtered) ==
    LET byDay == GroupByDay(filtered, <<>>)
    IN  SortByDate([i \in 1..Len(byDay) |-> Average(byDay[i])])

\* since.setDate(since.getDate() - days); since.toISOString()
SinceStr(t, days) == toISOString(t - days * TicksPerDay)

\* getHistory rejecting only negative days.
getHistory_ZeroDays(daysParam) ==
    /\ LET days == IF ~Falsy(daysParam) THEN parseInt(daysParam[1])
                   ELSE [nan |-> FALSE, val |-> 7]
       IN  IF days.nan \/ days.val < 0 \/ days.val > 90
           THEN last' = [handler |-> "getHistory", status |-> 400,
                         body |-> [error |-> "days must be a number between 1 and 90"]]
           ELSE LET sinceStr == SinceStr(now, days.val)
                    filtered == Filter(aqiHistoryStore, sinceStr)
                IN  last' = [handler  |-> "getHistory", status |-> 200,
                             body     |-> [days    |-> days.val,
                                           history |-> History(filtered)],
                             sinceStr |-> sinceStr,
                             filtered |-> filtered]
    /\ UNCHANGED <<aqiHistoryStore, pending, served, now, dashboard>>

\* getHistory reversing the store in place (aqiHistoryStore.reverse())
\* before it filters.
getHistory_ReversesStore(daysParam) ==
    /\ LET days == IF ~Falsy(daysParam) THEN parseInt(daysParam[1])
                   ELSE [nan |-> FALSE, val |-> 7]
       IN  IF days.nan \/ days.val < 1 \/ days.val > 90
           THEN /\ last' = [handler |-> "getHistory", status |-> 400,
                            body |-> [error |-> "days must be a number between 1 and 90"]]
                /\ UNCHANGED aqiHistoryStore
           ELSE LET sinceStr == SinceStr(now, days.val)
                    reversed == [i \in 1..Len(aqiHistoryStore) |->
                                   aqiHistoryStore[Len(aqiHistoryStore) + 1 - i]]
                    filtered == Filter(reversed, sinceStr)
                IN  /\ last' = [handler  |-> "getHistory", status |-> 200,
                                body     |-> [days    |-> days.val,
                                              history |-> History(filtered)],
                                sinceStr |-> sinceStr,
                                filtered |-> filtered]
                    /\ aqiHistoryStore' = reversed
    /\ UNCHANGED <<pending, served, now, dashboard>>

\* getHistory: the route parameter days, the filter and the daily buckets.
\* The response is kept with the handler's sinceStr and filtered.
getHistory(daysParam) ==
    /\ LET days == IF ~Falsy(daysParam) THEN parseInt(daysParam[1])
                   ELSE [nan |-> FALSE, val |-> 7]
       IN  IF days.nan \/ days.val < 1 \/ days.val > 90
           THEN last' = [handler |-> "getHistory", status |-> 400,
                         body |-> [error |-> "days must be a number between 1 and 90"]]
           ELSE LET sinceStr == SinceStr(now, days.val)
                    filtered == Filter(aqiHistoryStore, sinceStr)
                IN  last' = [handler  |-> "getHistory", status |-> 200,
                             body     |-> [days    |-> days.val,
                                           history |-> History(filtered)],
                             sinceStr |-> sinceStr,
                             filtered |-> filtered]
    /\ UNCHANGED <<aqiHistoryStore, pending, served, now, dashboard>>

SAFETY_TIPS == <<
    "Check AQI before outdoor exercise and plan for early morning when pollution is often lower.",
    "On high AQI days, keep windows closed and use air conditioning or an air purifier.",
    "Wear N95 or KN95 masks when AQI is Unhealthy or worse, especially near traffic.",
    "Avoid vigorous outdoor activity when AQI is above 100; choose indoor workouts instead.",
    "Vulnerable groups (children, elderly, those with heart/lung conditions) should limit exposure when AQI > 100.",
    "Use the air quality index to choose the best time of day for errands or commutes.",
    "Consider indoor plants that can help filter some pollutants (e.g., peace lily, spider plant).",
    "On bad air days, shower and change after being outside to reduce particle exposure." >>

getTips ==
    /\ last' = [handler |-> "getTips", status |-> 200,
                body |-> [tips |-> SAFETY_TIPS]]
    /\ UNCHANGED <<aqiHistoryStore, pending, served, now, dashboard>>

\* getGeocode up to its await: a query shorter than 2 characters is
\* answered with no results, any other is sent to the geocoder.
getGeocode(q) ==
    /\ LET t == IF q = Nil THEN Nil ELSE Some(trim(q[1]))
       IN  IF Falsy(t) \/ Len(t[1]) < 2
           THEN /\ last' = [handler |-> "getGeocode", status |-> 200,
                            body |-> [results |-> <<>>]]
                /\ UNCHANGED pending
           ELSE /\ BagCardinality(pending) < MaxReq
                /\ pending' = pending
                      (+) SetToBag({Suspended("getGeocode", NoNum, NoNum)})
                /\ UNCHANGED last
    /\ UNCHANGED <<aqiHistoryStore, served, now, dashboard>>

\* getGeocode from the return of the geocoder to the response.  A reply
\* that is not an array (isArray false) gives no results.
getGeocodeResume(c, reply) ==
    /\ c.handler = "getGeocode"
    /\ last' = IF reply.threw
               THEN [handler |-> "getGeocode", status |-> 500,
                     body |-> [error |-> "Geocoding failed", results |-> <<>>]]
               ELSE [handler |-> "getGeocode", status |-> 200,
                     body |-> [results |->
                        IF reply.isArray
                        THEN [i \in 1..Len(reply.data) |->
                                [displayName |-> reply.data[i].display_name,
                                 lat |-> parseFloat(reply.data[i].lat),
                                 lng |-> parseFloat(reply.data[i].lon),
                                 placeId |-> reply.data[i].place_id]]
                        ELSE <<>>]]
    /\ pending' = pending (-) SetToBag({c})
    /\ UNCHANGED <<aqiHistoryStore, served, now, dashboard>>

\* The clock advances.
Tick ==
    /\ now < StartTick + ClockSpan
    /\ now' = now + 1
    /\ UNCHANGED <<aqiHistoryStore, pending, served, last, dashboard>>

\* The server's variables, which the Dashboard does not touch.
serverVars == <<aqiHistoryStore, pending, served, last, now>>

\* The effect of the first render, useMyLocation being false:
\* loadData(lat, lng).
mount ==
    /\ ~dashboard.mounted
    /\ dashboard' = loadDataCall([dashboard EXCEPT !.mounted = TRUE],
                                 dashboard.lat, dashboard.lng)
    /\ UNCHANGED serverVars

\* handleSelectPlace: setLat, setLng and loadData(place.lat, place.lng).
handleSelectPlace(place) ==
    /\ dashboard.mounted
    /\ Len(dashboard.calls) < MaxCalls
    /\ dashboard' = loadDataCall([dashboard EXCEPT !.lat = place.lat,
                                                   !.lng = place.lng],
                                 place.lat, place.lng)
    /\ UNCHANGED serverVars

\* handleRefresh, useMyLocation being false: loadData(lat, lng).
handleRefresh ==
    /\ dashboard.mounted
    /\ Len(dashboard.calls) < MaxCalls
    /\ dashboard' = loadDataCall(dashboard, dashboard.lat, dashboard.lng)
    /\ UNCHANGED serverVars

\* loadData from the return of Promise.all to its second await.  reply
\* tells which of the three fetches succeeded; a failed fetchHistory is
\* caught and gives null.
loadDataAfterAll(i, reply) ==
    /\ i \in 1..Len(dashboard.calls)
    /\ dashboard.calls[i].pc = "all"
    /\ LET call    == dashboard.calls[i]
           current == fetchCurrent(call.latitude, call.longitude)
       IN  dashboard' =
             IF ~reply.current
             THEN loadDataCatch(dashboard, i, "Failed to fetch AQI")
             ELSE IF ~reply.tips
             THEN loadDataCatch(dashboard, i, "Failed to fetch tips")
             ELSE [dashboard EXCEPT
                     !.aqi = Some(current),
                     !.calls[i] =
                        [call EXCEPT
                           !.pc = "recommendation",
                           !.current = Some(current),
                           !.hist = IF reply.hist
                                    THEN Some([days |-> 7, history |-> <<>>])
                                    ELSE Nil,
                           !.tipsRes = Some([tips |-> SAFETY_TIPS])]]
    /\ UNCHANGED serverVars

\* loadData from the return of fetchRecommendation to its end.
loadDataAfterRecommendation(i, ok) ==
    /\ i \in 1..Len(dashboard.calls)
    /\ dashboard.calls[i].pc = "recommendation"
    /\ LET call == dashboard.calls[i]
       IN  dashboard' =
             IF ~ok
             THEN loadDataCatch(dashboard, i, "Failed to fetch recommendation")
             ELSE [dashboard EXCEPT
                     !.recommendation =
                        Some(fetchRecommendation(call.current[1].aqi)),
                     !.historyData = call.hist,
                     !.tips = call.tipsRes,
                     !.loading = FALSE,
                     !.calls = Without(@, i)]
    /\ UNCHANGED serverVars

\* Query strings of the requests, and the provider's replies.
LatLngInputs ==
    { <<Nil, Some(<<"7", "7", ".", "2">>)>>,
      <<Some(<<>>), Some(<<"7", "7", ".", "2">>)>>,
      <<Some(<<"2", "8", ".", "6">>), Nil>>,
      <<Some(<<"a", "b", "c">>), Some(<<"7", "7", ".", "2">>)>>,
      <<Some(<<"2", "8", ".", "6">>), Some(<<"x">>)>>,
      <<Some(<<"2", "8", ".", "6">>), Some(<<"7", "7", ".", "2">>)>> }

FailedReplies ==
    { Threw, NoBody, Body("ok", Nil),
      Body("error", Some(FullPayload(10, <<StartDay, 0, 1>>))) }

MalformedReplies ==
    { Body("ok", Some(Payload(Nil, Nil, Nil, Nil, Nil))) }

ProviderReplies ==
    FailedReplies \cup MalformedReplies
    \cup { Body("ok", Some(FullPayload(10, <<StartDay, 0, 1>>))) }

\* <<query aqi, body aqi>> of getRecommendation.
AqiInputs == { <<Nil, Nil>>, <<Some(<<"a", "b", "c">>), Nil>>,
               <<Some(<<"5", "0">>), Some(<<"1", "5", "1">>)>>,
               <<Nil, Some(<<"1", "5", "1">>)>> }

DaysInputs == {Nil, Some(<<"1">>), Some(<<"9", "1">>), Some(<<"x">>)}

QInputs == {Nil, Some(<<" ", "d", " ">>), Some(<<"d", "e">>)}

GeocoderReplies ==
    { [threw |-> TRUE, isArray |-> FALSE, data |-> <<>>],
      [threw |-> FALSE, isArray |-> FALSE, data |-> <<>>],
      [threw |-> FALSE, isArray |-> TRUE,
       data |-> << [display_name |-> "Delhi, India",
                    lat |-> <<"2", "8", ".", "6">>,
                    lon |-> <<"7", "7", ".", "2">>,
                    place_id |-> 1] >>] }

Next ==
    \/ \E ll \in LatLngInputs : getData(ll[1], ll[2])
    \/ \E c \in BagToSet(pending), reply \in ProviderReplies :
          getDataResume(c, reply)
    \/ \E a \in AqiInputs : getRecommendation(a[1], a[2])
    \/ \E d \in DaysInputs : getHistory(d)
    \/ getTips
    \/ \E q \in QInputs : getGeocode(q)
    \/ \E c \in BagToSet(pending), reply \in GeocoderReplies :
          getGeocodeResume(c, reply)

\* The server from start-up, at one instant of its clock.
Spec == Init /\ [][Next]_vars

\* The classifier on its whole input range: the behaviours in which the
\* server answers one getRecommendation request, for every aqi of
\* 0..MaxAqi and one far above the last bound.
LevelInputs == (0..MaxAqi) \cup {999999}

NextLevel ==
    /\ last.handler = "none"
    /\ \E n \in LevelInputs : getRecommendation(Some(ToStr(n)), Nil)

SpecLevel == Init /\ [][NextLevel]_vars

\* The history of a server that has recorded observations: every store of
\* up to MAX_HISTORY observations that lookups of PoolAqi x PoolTimes leave,
\* then getHistory requests as the clock advances.
PoolAqi == {10, 20, 30}

\* A day before start-up in toISOString's format, the same day in the
\* provider's format, and the day of start-up in the provider's format.
PoolTimes == { <<StartDay - 1, 1, 0>>, <<StartDay - 1, 0, 1>>,
               <<StartDay, 0, 0>> }

PoolLat == parseFloat(<<"2", "8", ".", "6">>)
PoolLng == parseFloat(<<"7", "7", ".", "2">>)

PoolServed ==
    { [numLat |-> PoolLat, numLng |-> PoolLng,
       body |-> formatted(FullPayload(a, s), StartTick)] :
         a \in PoolAqi, s \in PoolTimes }

InitHistory ==
    /\ served \in UNION { [1..n -> PoolServed] : n \in 0..MAX_HISTORY }
    /\ aqiHistoryStore =
          [i \in 1..Len(served) |->
              AqiRecord(served[i].body, served[i].numLat, served[i].numLng)]
    /\ pending = EmptyBag
    /\ last = [handler |-> "none", status |-> 0]
    /\ now = StartTick
    /\ dashboard = DashboardInit

HistoryDaysInputs == {Nil, Some(<<"0">>), Some(<<"1">>), Some(<<"2">>)}

NextHistory ==
    \/ \E d \in HistoryDaysInputs : getHistory(d)
    \/ Tick

SpecHistory == InitHistory /\ [][NextHistory]_vars

\* The validation of days on its whole range: the behaviours in which a
\* server that has recorded at most one observation answers one getHistory
\* request, for every integer days of 0..MaxDays, a negative one, ones that
\* are not integers and a missing one.
DaysRequests ==
    { Some(ToStr(n)) : n \in 0..MaxDays }
    \cup { Nil, Some(<<>>), Some(<<"-", "1">>), Some(<<"x">>),
           Some(<<"7", "x">>), Some(<<"1", ".", "5">>) }

InitDays == InitHistory /\ Len(served) <= 1

NextDays ==
    /\ last.handler = "none"
    /\ \E d \in DaysRequests : getHistory(d)

SpecDays == InitDays /\ [][NextDays]_vars

\* A coordinate parameter that is missing, empty or not a number.
InvalidCoord(x) == Falsy(x) \/ parseFloat(x[1]).nan

\* The server with the provider's replies arriving: every lookup sent to
\* the provider is eventually settled, by a reply or by an error, and its
\* continuation then runs.  Suspended lookups of the same coordinates that
\* started on the same store are one element of the bag twice; so that
\* every suspended lookup can be followed, a lookup is admitted only when
\* none like it is suspended.
LiveLatLng ==
    { <<Some(<<"2", "8", ".", "6">>), Some(<<"x">>)>>,
      <<Some(<<"2", "8", ".", "6">>), Some(<<"7", "7", ".", "2">>)>>,
      <<Some(<<"1", "9", ".", "1">>), Some(<<"7", "2", ".", "9">>)>> }

LiveReplies ==
    { Threw, Body("error", Nil),
      Body("ok", Some(FullPayload(10, <<StartDay, 0, 1>>))) }

LiveAqi == { <<Nil, Nil>>, <<Some(<<"5", "0">>), Nil>> }

LiveDays == { Some(<<"1">>), Some(<<"x">>) }

LiveContinuations ==
    { [handler |-> "getData", numLat |-> parseFloat(ll[1][1]),
       numLng |-> parseFloat(ll[2][1]), servedAtStart |-> n] :
         ll \in {x \in LiveLatLng : ~InvalidCoord(x[1]) /\ ~InvalidCoord(x[2])},
         n \in 0..MaxLive }

Distinct(lat, lng) ==
    IF Falsy(lat) THEN TRUE
    ELSE IF Falsy(lng) THEN TRUE
    ELSE ~BagIn(Suspended("getData", parseFloat(lat[1]), parseFloat(lng[1])),
                pending)

NextLive ==
    \/ \E ll \in LiveLatLng :
          /\ Len(served) + PendingLookups < MaxLive
          /\ Distinct(ll[1], ll[2])
          /\ getData(ll[1], ll[2])
    \/ \E c \in BagToSet(pending), reply \in LiveReplies :
          getDataResume(c, reply)
    \/ \E a \in LiveAqi : getRecommendation(a[1], a[2])
    \/ \E d \in LiveDays : getHistory(d)

ProviderSettles ==
    \A c \in LiveContinuations :
        WF_vars(\E reply \in LiveReplies : getDataResume(c, reply))

SpecLive == Init /\ [][NextLive]_vars /\ ProviderSettles

\* The Dashboard in a browser: the first render, then the user selecting
\* places and refreshing while the fetches of earlier loadData calls are
\* answered in any order.
AllReplies ==
    { [current |-> TRUE, hist |-> TRUE, tips |-> TRUE],
      [current |-> TRUE, hist |-> FALSE, tips |-> TRUE],
      [current |-> FALSE, hist |-> TRUE, tips |-> TRUE],
      [current |-> TRUE, hist |-> TRUE, tips |-> FALSE] }

NextDashboard ==
    \/ mount
    \/ \E place \in Places : handleSelectPlace(place)
    \/ handleRefresh
    \/ \E i \in 1..MaxCalls, reply \in AllReplies : loadDataAfterAll(i, reply)
    \/ \E i \in 1..MaxCalls, ok \in BOOLEAN :
          loadDataAfterRecommendation(i, ok)

SpecDashboard == Init /\ [][NextDashboard]_vars

---------------------------------------------------------------------------
(* The history store: capacity, order, failures, concurrency *)

\* The observation that belongs to a served response.
Observation(e) ==
    [city |-> e.body.city, aqi |-> e.body.aqi, lat |-> e.numLat,
     lng |-> e.numLng, time |-> e.body.time,
     dominantPollutant |-> e.body.dominantPollutant]

\* The step is the continuation of a getData request.
LookupResumed == PendingLookups' < PendingLookups

\* The provider lookup failed: the call threw, or the payload has a status
\* other than "ok", or no data.
Failed(reply) ==
    \/ reply.threw
    \/ reply.data = Nil
    \/ reply.data[1].status # "ok"
    \/ reply.data[1].data = Nil

\* The payload is malformed: status "ok" and a data object without its
\* aqi, its city name or its time.
Malformed(reply) ==
    /\ ~Failed(reply)
    /\ LET d == reply.data[1].data[1]
       IN  \/ d.aqi = Nil
           \/ d.city = Nil
           \/ d.city # Nil /\ d.city[1].name = Nil
           \/ d.time = Nil
           \/ d.time # Nil /\ d.time[1].s = Nil

\* C1: in every reachable state, whatever requests have run and whichever
\* are suspended, the history store holds at most MAX_HISTORY observations.
C1_StoreBounded == Len(aqiHistoryStore) <= MAX_HISTORY

\* The store is full, more lookups than its capacity have been served, and
\* a lookup is suspended on the provider.
C1_Witness ==
    /\ Len(aqiHistoryStore) = MAX_HISTORY
    /\ Len(served) > MAX_HISTORY
    /\ PendingLookups > 0

\* C2: once more than MAX_HISTORY lookups have been served, the store holds
\* exactly MAX_HISTORY observations: those of the MAX_HISTORY most recent
\* responses, in the order they were served.
C2_KeepsNewest ==
    Len(served) > MAX_HISTORY =>
        /\ Len(aqiHistoryStore) = MAX_HISTORY
        /\ \A i \in 1..MAX_HISTORY :
              aqiHistoryStore[i]
                = Observation(served[Len(served) - MAX_HISTORY + i])

\* Two observations beyond the capacity were served, and the evicted ones
\* differ from those kept.
C2_Witness ==
    /\ Len(served) = MAX_HISTORY + 2
    /\ Observation(served[1]) # aqiHistoryStore[1]
    /\ Observation(served[2]) # aqiHistoryStore[2]
    /\ aqiHistoryStore[MAX_HISTORY] = Observation(served[Len(served)])

\* C3: a getData request whose provider lookup failed is answered 500 or
\* 502 and leaves the history store as it was.
C3_FailureNotRecorded ==
    [][ (LookupResumed /\ Failed(last'.reply)) =>
            /\ aqiHistoryStore' = aqiHistoryStore
            /\ last'.status \in {500, 502} ]_vars

\* A failed lookup (an error status with a data object) has been answered
\* while the store held observations.
C3_Witness ==
    /\ last.handler = "getData"
    /\ last.status = 502
    /\ last.reply.data # Nil
    /\ last.reply.data[1].data # Nil
    /\ Len(aqiHistoryStore) > 0

\* C4: a getData request whose provider payload is malformed (status "ok",
\* a data object without aqi, city name or time) is answered as an upstream
\* failure and nothing is appended to the history store.
C4_MalformedNotRecorded ==
    [][ (LookupResumed /\ Malformed(last'.reply)) =>
            /\ aqiHistoryStore' = aqiHistoryStore
            /\ last'.status \in {500, 502} ]_vars

\* C5: as long as no more than MAX_HISTORY lookups have been served, in
\* whatever order they resumed, the store has one entry per served response
\* and holds each response's observation exactly once.
C5_NoneLostNoneTwice ==
    Len(served) <= MAX_HISTORY =>
        /\ Len(aqiHistoryStore) = Len(served)
        /\ \E f \in [1..Len(served) -> 1..Len(served)] :
              /\ \A i, j \in 1..Len(served) : f[i] = f[j] => i = j
              /\ \A i \in 1..Len(served) :
                    aqiHistoryStore[f[i]] = Observation(served[i])

\* Two lookups were in flight together against the empty store (the second
\* one served had started before the first was recorded) and both have
\* been answered.
C5_Witness ==
    /\ Len(served) = 2
    /\ last.handler = "getData"
    /\ last.status = 200
    /\ last.servedAtStart = 0
    /\ PendingLookups = 0
    /\ Len(aqiHistoryStore) = 2

\* C6: the continuation of a successful lookup appends its observation to
\* the store as it is at that moment and, when that store was full, drops
\* its oldest element: no lookup acts on the length it saw when it started.
C6_RecordAtomic ==
    [][ (LookupResumed /\ last'.status = 200) =>
            LET obs == Observation(served'[Len(served')])
            IN  IF Len(aqiHistoryStore) = MAX_HISTORY
                THEN aqiHistoryStore' = Append(Tail(aqiHistoryStore), obs)
                ELSE aqiHistoryStore' = Append(aqiHistoryStore, obs) ]_vars

\* A lookup that started on a full store was answered after another lookup
\* had been recorded in between, and the store is still full.
C6_Witness ==
    /\ last.handler = "getData"
    /\ last.status = 200
    /\ last.servedAtStart >= MAX_HISTORY
    /\ Len(served) >= last.servedAtStart + 2
    /\ Len(aqiHistoryStore) = MAX_HISTORY

---------------------------------------------------------------------------
(* The level classifier *)

Bands == {AQI_LEVELS[i] : i \in 1..Len(AQI_LEVELS)}

\* The bands a successful getRecommendation response names.
BandsOf(body) ==
    {b \in Bands : /\ b.label = body.level
                   /\ b.color = body.color
                   /\ b.recommendation = body.recommendation}

Classified == last.handler = "getRecommendation" /\ last.status = 200

\* C7: for every integer aqi of 0..MaxAqi the classifier returns exactly
\* one band of the table, and that band's max is >= aqi or it is the last
\* band.
C7_Total ==
    (Classified /\ last.body.aqi \in 0..MaxAqi) =>
        /\ Cardinality(BandsOf(last.body)) = 1
        /\ \A b \in BandsOf(last.body) :
              \/ b.max >= last.body.aqi
              \/ b = AQI_LEVELS[Len(AQI_LEVELS)]

\* The largest aqi of the range has been classified, into the last band.
C7_Witness ==
    /\ Classified
    /\ last.body.aqi = MaxAqi
    /\ last.body.level = "Hazardous"

\* The max of the band the response names.
MaxOf(body) == (CHOOSE b \in BandsOf(body) : TRUE).max

\* C8: the classifier returns the band with the least max that is >= aqi,
\* and the last band when aqi is above every max; the bounds are inclusive
\* (50 -> 50, 51 -> 100, 100 -> 100, 101 -> 150, 500 and 999999 -> 500).
C8_LeastBandAbove ==
    Classified =>
        LET a     == last.body.aqi
            above == {b \in Bands : b.max >= a}
        IN  /\ BandsOf(last.body) # {}
            /\ IF above = {}
               THEN MaxOf(last.body) = 500
               ELSE /\ MaxOf(last.body) \in {b.max : b \in above}
                    /\ \A b \in above : MaxOf(last.body) <= b.max
            /\ a = 50 => MaxOf(last.body) = 50
            /\ a = 51 => MaxOf(last.body) = 100
            /\ a = 100 => MaxOf(last.body) = 100
            /\ a = 101 => MaxOf(last.body) = 150
            /\ a \in {500, 999999} => MaxOf(last.body) = 500

\* An aqi on an inclusive bound has been classified into the band of that
\* bound.
C8_Witness ==
    /\ Classified
    /\ last.body.aqi = 100
    /\ last.body.level = "Moderate"

---------------------------------------------------------------------------
(* The history: filter and daily buckets *)

Answered == last.handler = "getHistory" /\ last.status = 200

\* Timestamp a is not before timestamp b, as strings.
NotBefore(a, b) ==
    ~ \E k \in 1..3 : a[k] < b[k] /\ \A j \in 1..(k - 1) : a[j] = b[j]

\* C9: the observations getHistory aggregates are exactly the stored ones
\* whose time is >= sinceStr, each once, in the order of the store.
C9_PureFilter ==
    Answered =>
        LET f   == last.filtered
            st  == aqiHistoryStore
            idx == {i \in 1..Len(st) : NotBefore(st[i].time, last.sinceStr)}
        IN  /\ Len(f) = Cardinality(idx)
            /\ \E g \in [1..Len(f) -> 1..Len(st)] :
                  /\ \A k \in 1..Len(f) : g[k] \in idx /\ f[k] = st[g[k]]
                  /\ \A k, m \in 1..Len(f) : k < m => g[k] < g[m]

\* The filter kept an observation whose time is the cutoff itself and
\* dropped one of the same date.
C9_Witness ==
    /\ Answered
    /\ Len(last.filtered) > 0
    /\ Len(last.filtered) < Len(aqiHistoryStore)
    /\ \E k \in 1..Len(last.filtered) : last.filtered[k].time = last.sinceStr
    /\ \E i \in 1..Len(aqiHistoryStore) :
          /\ DateOf(aqiHistoryStore[i].time) = DateOf(last.sinceStr)
          /\ ~NotBefore(aqiHistoryStore[i].time, last.sinceStr)

\* The sum of the aqi of the elements of f at the indexes of S.
RECURSIVE AqiSum(_, _)
AqiSum(f, S) ==
    IF S = {} THEN 0
    ELSE LET k == CHOOSE k \in S : TRUE
         IN  f[k].aqi + AqiSum(f, S \ {k})

\* C10: getHistory returns one bucket per distinct date of the filtered
\* observations, each with the mean aqi of that date's observations
\* rounded to the nearest integer, in strictly ascending order of date.
C10_DailyAverages ==
    Answered =>
        LET f == last.filtered
            h == last.body.history
            on(d) == {k \in 1..Len(f) : DateOf(f[k].time) = d}
        IN  /\ {h[i].date : i \in 1..Len(h)}
                  = {DateOf(f[k].time) : k \in 1..Len(f)}
            /\ \A i, j \in 1..Len(h) : i < j => h[i].date < h[j].date
            /\ \A i \in 1..Len(h) :
                  LET n   == Cardinality(on(h[i].date))
                      sum == AqiSum(f, on(h[i].date))
                      d2  == 2 * (n * h[i].avgAqi - sum)
                  IN  n > 0 /\ d2 <= n /\ 0 - d2 <= n

\* Three observations of 10, 20 and 30 on one date gave a bucket of
\* average 20.
C10_Witness ==
    /\ Answered
    /\ Len(last.body.history) = 1
    /\ Len(last.filtered) = 3
    /\ {last.filtered[k].aqi : k \in 1..3} = {10, 20, 30}
    /\ last.body.history[1].avgAqi = 20

---------------------------------------------------------------------------
(* The history: empty results and the validation of days *)

\* The days parameter reads as an integer of 1..90.
ValidDays(d) ==
    /\ ~Falsy(d)
    /\ ~parseInt(d[1]).nan
    /\ parseInt(d[1]).val \in 1..90

\* No stored observation is as late as the cutoff of a request of d days.
NoneSince(d) ==
    \A i \in 1..Len(aqiHistoryStore) :
        ~NotBefore(aqiHistoryStore[i].time,
                   SinceStr(now, parseInt(d[1]).val))

\* C11: a getHistory request with a valid days value, made when the store
\* is empty or when every stored observation is before the cutoff, is
\* answered 200 with the days it asked for and an empty history.
C11_EmptyIsSuccess ==
    [][ \A d \in HistoryDaysInputs :
          (ValidDays(d) /\ NoneSince(d) /\ getHistory(d)) =>
              /\ last'.status = 200
              /\ last'.body.days = parseInt(d[1]).val
              /\ last'.body.history = <<>> ]_vars

\* A request was answered with an empty history while the store held
\* observations, all of them before the cutoff.
C11_Witness ==
    /\ Answered
    /\ Len(aqiHistoryStore) > 0
    /\ \A i \in 1..Len(aqiHistoryStore) :
          ~NotBefore(aqiHistoryStore[i].time, last.sinceStr)
    /\ last.body.history = <<>>

---------------------------------------------------------------------------
(* Validation at the boundary *)

\* C12: a getData request whose lat or lng is missing, empty or does not
\* parse to a number is answered 400 in the same step, sends no lookup to
\* the provider and leaves the store, the served lookups and the suspended
\* handlers as they were, so that later requests are served as before.
C12_InvalidCoordinatesRejected ==
    [][ \A ll \in LatLngInputs :
          ((InvalidCoord(ll[1]) \/ InvalidCoord(ll[2]))
              /\ getData(ll[1], ll[2])) =>
              /\ last'.handler = "getData"
              /\ last'.status = 400
              /\ pending' = pending
              /\ aqiHistoryStore' = aqiHistoryStore
              /\ served' = served ]_vars

\* A request with a coordinate that is not a number was rejected while
\* the store held an observation and a lookup was suspended.
C12_Witness ==
    /\ last.handler = "getData"
    /\ last.status = 400
    /\ last.body.error = "lat and lng must be valid numbers"
    /\ Len(aqiHistoryStore) > 0
    /\ PendingLookups > 0

\* C13: a getHistory request is answered with a history only when its days
\* reads as an integer of 1..90, which the response echoes; a days that is
\* not a number, is below 1 or is above 90 is answered 400 with an error
\* and no history.
C13_DaysValidated ==
    [][ \A d \in DaysRequests :
          getHistory(d) =>
              /\ last'.handler = "getHistory"
              /\ last'.status \in {200, 400}
              /\ last'.status = 200 =>
                    /\ last'.body.days \in 1..90
                    /\ DOMAIN last'.body = {"days", "history"}
                    /\ ~Falsy(d) =>
                          /\ ValidDays(d)
                          /\ last'.body.days = parseInt(d[1]).val
              /\ (~Falsy(d) /\ ~ValidDays(d)) =>
                    /\ last'.status = 400
                    /\ DOMAIN last'.body = {"error"}
                    /\ DOMAIN last' = {"handler", "status", "body"} ]_vars

\* A request of 90 days was answered with a history that holds every
\* stored observation.
C13_Witness ==
    /\ Answered
    /\ last.body.days = 90
    /\ Len(aqiHistoryStore) > 0
    /\ Len(last.filtered) = Len(aqiHistoryStore)

---------------------------------------------------------------------------
(* Frame of the read operations *)

\* The handlers that only read.
ReadHandlers == {"getHistory", "getRecommendation", "getTips", "getGeocode"}

\* C14: a step that is not the continuation of a lookup, and so every step
\* of getHistory, getRecommendation, getTips and getGeocode, leaves the
\* store as it was; and whatever the step, the observations that stay in
\* the store keep their fields and their order: the store after the step is
\* the store before it, less at most its first element, plus at most one
\* appended element.
C14_ReadsDoNotMutate ==
    [][ /\ ~LookupResumed => aqiHistoryStore' = aqiHistoryStore
        /\ (last' # last /\ last'.handler \in ReadHandlers) =>
               aqiHistoryStore' = aqiHistoryStore
        /\ \E k \in 0..1 :
              /\ k <= Len(aqiHistoryStore)
              /\ Len(aqiHistoryStore') \in
                    { Len(aqiHistoryStore) - k, Len(aqiHistoryStore) - k + 1 }
              /\ \A i \in 1..(Len(aqiHistoryStore) - k) :
                    aqiHistoryStore'[i] = aqiHistoryStore[i + k] ]_vars

\* A history was answered from a store of two different observations
\* while a lookup was suspended.
C14_Witness ==
    /\ Answered
    /\ Len(last.filtered) = 2
    /\ Len(aqiHistoryStore) = 2
    /\ aqiHistoryStore[1] # aqiHistoryStore[2]
    /\ last.filtered = aqiHistoryStore
    /\ PendingLookups > 0

---------------------------------------------------------------------------
(* The band table in the responses *)

\* C15: every successful getRecommendation response lists the six bands
\* of the table in ascending order of their upper bounds 50, 100, 150, 200,
\* 300, 500, and its level, color and recommendation are those of one band
\* of that list, the band getLevel returns for the aqi of the response.
C15_BandTable ==
    Classified =>
        LET all == last.body.allLevels
        IN  /\ [i \in 1..Len(all) |-> all[i].upTo]
                  = <<50, 100, 150, 200, 300, 500>>
            /\ \A i, j \in 1..Len(all) : i < j => all[i].upTo < all[j].upTo
            /\ \A i \in 1..Len(all) :
                  /\ all[i].label = AQI_LEVELS[i].label
                  /\ all[i].color = AQI_LEVELS[i].color
            /\ Cardinality({i \in 1..Len(all) :
                              all[i].label = last.body.level}) = 1
            /\ \E i \in 1..Len(all) :
                  /\ all[i].label = last.body.level
                  /\ all[i].color = last.body.color
                  /\ AQI_LEVELS[i].recommendation = last.body.recommendation
                  /\ AQI_LEVELS[i] = getLevel(last.body.aqi)

\* An aqi of the fourth band was answered with that band's level and
\* color and the list of the six bands.
C15_Witness ==
    /\ Classified
    /\ last.body.aqi = 151
    /\ last.body.level = "Unhealthy"
    /\ last.body.color = AQI_LEVELS[4].color
    /\ Len(last.body.allLevels) = 6

---------------------------------------------------------------------------
(* The write of a successful lookup *)

\* C16: the continuation of a lookup whose provider reply has status "ok"
\* and data answers 200 and appends exactly one observation at the end of
\* the store, evicting the first element only when the store was full and
\* nothing else; the appended observation has the city, aqi and time of
\* the response, and the level of the response is getLevel of its aqi.
C16_OneAppendPerSuccess ==
    [][ (LookupResumed /\ ~Failed(last'.reply)) =>
            LET old   == aqiHistoryStore
                new   == aqiHistoryStore'
                k     == IF Len(old) + 1 > MAX_HISTORY THEN 1 ELSE 0
                added == new[Len(new)]
            IN  /\ last'.status = 200
                /\ Len(new) = Len(old) + 1 - k
                /\ SubSeq(new, 1, Len(new) - 1) = SubSeq(old, 1 + k, Len(old))
                /\ added.city = last'.body.city
                /\ added.aqi = last'.body.aqi
                /\ added.time = last'.body.time
                /\ added.lat = last'.numLat
                /\ added.lng = last'.numLng
                /\ last'.body.level = getLevel(last'.body.aqi) ]_vars

\* A lookup answered with the provider's city and time was recorded at
\* the end of a full store whose first element had been evicted for it.
C16_Witness ==
    /\ last.handler = "getData"
    /\ last.status = 200
    /\ last.body.city = "Delhi"
    /\ Len(served) > MAX_HISTORY
    /\ Len(aqiHistoryStore) = MAX_HISTORY
    /\ aqiHistoryStore[MAX_HISTORY].city = last.body.city
    /\ aqiHistoryStore[MAX_HISTORY].time = last.body.time
    /\ aqiHistoryStore[1] # Observation(served[1])

---------------------------------------------------------------------------
(* Every request is answered once *)

---------------------------------------------------------------------------
(* History appears as air quality is checked *)

\* C18: every getHistory response to a valid days shows every observation
\* that a successful lookup recorded and that is still in the store, in
\* the bucket of the date of its time, whether that time is the provider's
\* or the server clock's.
C18_HistoryShowsObservations ==
    Answered =>
        \A i \in 1..Len(aqiHistoryStore) :
            \E b \in 1..Len(last.body.history) :
                /\ last.body.history[b].date = DateOf(aqiHistoryStore[i].time)
                /\ \E k \in 1..Len(last.body.history[b].readings) :
                      last.body.history[b].readings[k] = aqiHistoryStore[i]

---------------------------------------------------------------------------
(* The daily buckets *)

\* The number of readings of the first n buckets of h.
RECURSIVE Readings(_, _)
Readings(h, n) ==
    IF n = 0 THEN 0 ELSE Len(h[n].readings) + Readings(h, n - 1)

\* C19: in every getHistory response the buckets partition the filtered
\* observations: each observation's date has exactly one bucket, a
\* bucket's readings are the filtered observations of its date in the
\* order of the filter, no bucket is empty, no two buckets have the same
\* date, and the sizes of the buckets add up to the number of filtered
\* observations.
C19_BucketsPartition ==
    Answered =>
        LET f == last.filtered
            h == last.body.history
        IN  /\ \A k \in 1..Len(f) :
                  Cardinality({i \in 1..Len(h) :
                                  h[i].date = DateOf(f[k].time)}) = 1
            /\ \A i \in 1..Len(h) :
                  /\ h[i].readings # <<>>
                  /\ h[i].readings
                        = SelectSeq(f, LAMBDA x : DateOf(x.time) = h[i].date)
            /\ \A i, j \in 1..Len(h) : h[i].date = h[j].date => i = j
            /\ Readings(h, Len(h)) = Len(f)

\* Three filtered observations, the first and the third of one date and
\* different, the second of another date, went into two buckets.
C19_Witness ==
    /\ Answered
    /\ Len(last.filtered) = 3
    /\ DateOf(last.filtered[1].time) = DateOf(last.filtered[3].time)
    /\ DateOf(last.filtered[1].time) # DateOf(last.filtered[2].time)
    /\ last.filtered[1] # last.filtered[3]
    /\ Len(last.body.history) = 2

---------------------------------------------------------------------------
(* The Dashboard's overlapping loadData calls *)

\* C20: loading is true as long as a loadData call is in flight, and once
\* no call is in flight the displayed aqi is the answer for the
\* coordinates requested last (lat, lng), with the recommendation for
\* that aqi.
C20_LatestRequestWins ==
    /\ dashboard.calls # <<>> => dashboard.loading
    /\ (dashboard.calls = <<>> /\ dashboard.aqi # Nil) =>
          /\ dashboard.aqi[1] = fetchCurrent(dashboard.lat, dashboard.lng)
          /\ dashboard.recommendation # Nil =>
                dashboard.recommendation[1].aqi = dashboard.aqi[1].aqi

===========================================================================
